---- MODULE Spec2Model ----
(***************************************************************************)
(* Model of src-tauri/src/pty.rs: the PTY session registry PTY_SESSIONS,   *)
(* the four commands spawn_pty / write_pty / resize_pty / kill_pty and the *)
(* reader thread that spawn_pty starts for every session.                  *)
(*                                                                         *)
(* A "handle" h \in Handles is the PtySession built by the h-th successful *)
(* spawn_pty call (its writer, child and master) and also names the reader *)
(* thread that this call starts.  Handle 0 stands for "no session".        *)
(***************************************************************************)
EXTENDS Integers, Sequences, FiniteSets

\* ---------------------------------------------------------------- bounds
MaxSpawns == 2          \* successful spawn_pty calls in one run
MaxChunks == 2          \* non-empty reads one child can cause

\* ------------------------------------------------------------- constants
NoHandle == 0
Sentinel == -1          \* unwrap_or(-1) / else -1
Two15 == 32768
Two16 == 65536

Ids == {"s1", "s2"}                     \* session_id values the host uses
Handles == 1..MaxSpawns
\* u32 values of ExitStatus::exit_code(), as <<high 16 bits, low 16 bits>>:
\* 0 and 4294967295
ExitCodes == {<<0, 0>>, <<Two16 - 1, Two16 - 1>>}
SpawnOutcomes == {"openpty_err", "spawn_err", "writer_err", "reader_err", "ok"}
WriteOutcomes == {"write_all_err", "flush_err", "ok"}
\* the failures of spawn_pty that come after spawn_command has succeeded
ChildLaunched == {"writer_err", "reader_err"}

VARIABLES
    PTY_SESSIONS,   \* Ids -> handle stored under the key, NoHandle if none
    lock,           \* reader thread holding the PTY_SESSIONS mutex, or NoHandle
    sid,            \* handle -> session_id it was spawned with
    pc,             \* handle -> position of its spawn_pty call / reader thread
    childSt,        \* handle -> state of the child process of the session
    childCode,      \* handle -> u32 exit code of the child, once wait() gave it
    readCount,      \* handle -> non-empty reads the reader thread has made
    held,           \* handle -> handle its reader thread took out of the map
    waited,         \* handle -> outcome of the reader thread's child.wait()
    exit_code,      \* handle -> exit_code computed by the reader thread
    notes,          \* handle -> events emitted by the reader thread, in order
    removedBy,      \* handle -> how the PtySession left the map
    ret,            \* the command that returned last and its result
    exitSeen,       \* id -> pty-exit emitted for id, no insert of id since
    orphan          \* a child launched by a spawn_pty that failed is running

vars == <<PTY_SESSIONS, lock, sid, pc, childSt, childCode, readCount,
          held, waited, exit_code, notes, removedBy, ret, exitSeen, orphan>>

\* `status.exit_code() as i32`: a u32 reinterpreted as a 32-bit signed integer
AsI32(u) == IF u[1] >= Two15 THEN (u[1] - Two16) * Two16 + u[2]
                             ELSE u[1] * Two16 + u[2]

\* number of sessions created so far; handles are handed out in order
Spawned == Cardinality({h \in Handles : pc[h] # "Unused"})

Return(op, res) == [op |-> op, res |-> res]

PtyData(n) == <<"pty-data", n>>
PtyExit(code) == <<"pty-exit", code>>

Init ==
    /\ PTY_SESSIONS = [id \in Ids |-> NoHandle]
    /\ lock = NoHandle
    /\ sid = [h \in Handles |-> "s1"]
    /\ pc = [h \in Handles |-> "Unused"]
    /\ childSt = [h \in Handles |-> "none"]
    /\ childCode = [h \in Handles |-> <<0, 0>>]
    /\ readCount = [h \in Handles |-> 0]
    /\ held = [h \in Handles |-> NoHandle]
    /\ waited = [h \in Handles |-> "none"]
    /\ exit_code = [h \in Handles |-> 0]
    /\ notes = [h \in Handles |-> <<>>]
    /\ removedBy = [h \in Handles |-> "none"]
    /\ ret = Return("none", "ok")
    /\ exitSeen = [id \in Ids |-> FALSE]
    /\ orphan = FALSE

\* ------------------------------------------------------------ spawn_pty
\* Variant of spawn_pty_fail: the error path cleans up by session_id.
spawn_pty_fail_cleans(id, outcome) ==
    /\ outcome # "ok"
    /\ lock = NoHandle
    /\ PTY_SESSIONS' = [PTY_SESSIONS EXCEPT ![id] = NoHandle]
    /\ ret' = Return("spawn", "os_error")
    /\ UNCHANGED <<exitSeen, lock, sid, pc, childSt, childCode, readCount,
                   held, waited, exit_code, notes, removedBy>>
    /\ UNCHANGED orphan

\* Lines 38-59: one of the four `?` returns the OS error before the map is
\* touched, and what the call has created by then is dropped.  Dropping the
\* pair closes the terminal; the child handle is dropped without kill() or
\* wait(), so a child that was launched is running when the call returns and
\* lives on until something else ends it (OrphanExit).
spawn_pty_fail(id, outcome) ==
    /\ outcome # "ok"
    /\ ret' = Return("spawn", "os_error")
    /\ orphan' = (orphan \/ outcome \in ChildLaunched)
    /\ UNCHANGED <<exitSeen, PTY_SESSIONS, lock, sid, pc, childSt, childCode,
                   readCount, held, waited, exit_code, notes, removedBy>>

\* Lines 38-72: the resources are created and sessions.insert stores the new
\* PtySession; HashMap::insert replaces the value of a key that is present,
\* and the replaced PtySession is dropped.
spawn_pty_insert(id) ==
    /\ Spawned < MaxSpawns
    /\ lock = NoHandle
    /\ LET h == Spawned + 1
           old == PTY_SESSIONS[id]
       IN /\ PTY_SESSIONS' = [PTY_SESSIONS EXCEPT ![id] = h]
          /\ removedBy' = IF old # NoHandle
                          THEN [removedBy EXCEPT ![old] = "insert"]
                          ELSE removedBy
          /\ sid' = [sid EXCEPT ![h] = id]
          /\ pc' = [pc EXCEPT ![h] = "Inserted"]
          /\ childSt' = [childSt EXCEPT ![h] = "running"]
    /\ exitSeen' = [exitSeen EXCEPT ![id] = FALSE]
    /\ UNCHANGED <<lock, childCode, readCount, held, waited, exit_code, notes,
                   ret>>
    /\ UNCHANGED orphan

\* Lines 74-77 and 119: thread::spawn starts the reader thread, Ok(()) returns.
spawn_pty_thread(h) ==
    /\ pc[h] = "Inserted"
    /\ pc' = [pc EXCEPT ![h] = "Reading"]
    /\ ret' = Return("spawn", "ok")
    /\ UNCHANGED <<PTY_SESSIONS, lock, sid, childSt, childCode, readCount,
                   held, waited, exit_code, notes, removedBy, exitSeen>>
    /\ UNCHANGED orphan

\* ------------------------------------------------------- the child process
\* A child left behind by a failed spawn_pty terminates, by itself or because
\* its terminal was hung up.
OrphanExit ==
    /\ orphan
    /\ orphan' = FALSE
    /\ UNCHANGED <<PTY_SESSIONS, lock, sid, pc, childSt, childCode, readCount,
                   held, waited, exit_code, notes, removedBy, ret, exitSeen>>

\* The child terminates by itself.
ChildExit(h) ==
    /\ childSt[h] = "running"
    /\ childSt' = [childSt EXCEPT ![h] = "exited"]
    /\ UNCHANGED <<childCode, PTY_SESSIONS, lock, sid, pc, readCount, held, waited,
                   exit_code, notes, removedBy, ret, exitSeen>>
    /\ UNCHANGED orphan

\* ------------------------------------------------------- the reader thread
\* Lines 80-91: Ok(n), n > 0: the chunk is emitted as pty-data.  The child, or
\* what it left in the terminal's buffer, can supply a chunk at any time.
ReadData(h) ==
    /\ pc[h] = "Reading"
    /\ readCount[h] < MaxChunks
    /\ readCount' = [readCount EXCEPT ![h] = @ + 1]
    /\ notes' = [notes EXCEPT ![h] = Append(@, PtyData(readCount[h] + 1))]
    /\ UNCHANGED <<PTY_SESSIONS, lock, sid, pc, childSt, childCode, held,
                   waited, exit_code, removedBy, ret, exitSeen>>
    /\ UNCHANGED orphan

\* Line 81: Ok(0) => break.  End of stream: the child is gone.
ReadEof(h) ==
    /\ pc[h] = "Reading"
    /\ childSt[h] = "exited"
    /\ pc' = [pc EXCEPT ![h] = "Draining"]
    /\ UNCHANGED <<PTY_SESSIONS, lock, sid, childSt, childCode, readCount,
                   held, waited, exit_code, notes, removedBy, ret, exitSeen>>
    /\ UNCHANGED orphan

\* Variant of ReadErr: the error arm reports the exit itself before breaking.
ReadErr_emits(h) ==
    /\ pc[h] = "Reading"
    /\ pc' = [pc EXCEPT ![h] = "Draining"]
    /\ notes' = [notes EXCEPT ![h] = Append(@, PtyExit(Sentinel))]
    /\ UNCHANGED <<PTY_SESSIONS, lock, sid, childSt, childCode, readCount,
                   held, waited, exit_code, removedBy, ret, exitSeen>>
    /\ UNCHANGED orphan

\* Line 92: Err(_) => break.  Any read error, at any time.
ReadErr(h) ==
    /\ pc[h] = "Reading"
    /\ pc' = [pc EXCEPT ![h] = "Draining"]
    /\ UNCHANGED <<PTY_SESSIONS, lock, sid, childSt, childCode, readCount,
                   held, waited, exit_code, notes, removedBy, ret, exitSeen>>
    /\ UNCHANGED orphan

\* Variant of ReaderRemove: the entry is looked up but left in the map.
ReaderRemove_get(h) ==
    /\ pc[h] = "Draining"
    /\ lock = NoHandle
    /\ LET g == PTY_SESSIONS[sid[h]]
       IN IF g # NoHandle
          THEN /\ held' = [held EXCEPT ![h] = g]
               /\ lock' = h
               /\ pc' = [pc EXCEPT ![h] = "Waiting"]
               /\ UNCHANGED exit_code
          ELSE /\ exit_code' = [exit_code EXCEPT ![h] = Sentinel]
               /\ pc' = [pc EXCEPT ![h] = "Emit"]
               /\ UNCHANGED <<held, lock>>
    /\ UNCHANGED <<PTY_SESSIONS, removedBy, sid, childSt, childCode, readCount,
                   waited, notes, ret, exitSeen>>
    /\ UNCHANGED orphan

\* Variant of ReaderRemove: a missing entry is reported as exit code 0.
ReaderRemove_zero(h) ==
    /\ pc[h] = "Draining"
    /\ lock = NoHandle
    /\ LET g == PTY_SESSIONS[sid[h]]
       IN IF g # NoHandle
          THEN /\ PTY_SESSIONS' = [PTY_SESSIONS EXCEPT ![sid[h]] = NoHandle]
               /\ removedBy' = [removedBy EXCEPT ![g] = "reader"]
               /\ held' = [held EXCEPT ![h] = g]
               /\ lock' = h
               /\ pc' = [pc EXCEPT ![h] = "Waiting"]
               /\ UNCHANGED exit_code
          ELSE /\ exit_code' = [exit_code EXCEPT ![h] = 0]
               /\ pc' = [pc EXCEPT ![h] = "Emit"]
               /\ UNCHANGED <<PTY_SESSIONS, removedBy, held, lock>>
    /\ UNCHANGED <<sid, childSt, childCode, readCount, waited, notes, ret,
                   exitSeen>>
    /\ UNCHANGED orphan

\* Variant of ReaderRemove: the guard is dropped right after the remove, and
\* wait() runs without the mutex.
ReaderRemove_unlocked(h) ==
    /\ pc[h] = "Draining"
    /\ lock = NoHandle
    /\ LET g == PTY_SESSIONS[sid[h]]
       IN IF g # NoHandle
          THEN /\ PTY_SESSIONS' = [PTY_SESSIONS EXCEPT ![sid[h]] = NoHandle]
               /\ removedBy' = [removedBy EXCEPT ![g] = "reader"]
               /\ held' = [held EXCEPT ![h] = g]
               /\ pc' = [pc EXCEPT ![h] = "Waiting"]
               /\ UNCHANGED exit_code
          ELSE /\ exit_code' = [exit_code EXCEPT ![h] = Sentinel]
               /\ pc' = [pc EXCEPT ![h] = "Emit"]
               /\ UNCHANGED <<PTY_SESSIONS, removedBy, held>>
    /\ UNCHANGED <<lock, sid, childSt, childCode, readCount, waited, notes,
                   ret, exitSeen>>
    /\ UNCHANGED orphan

\* Lines 98-99 and 105-107: lock, sessions.remove(&session_id_clone).  With
\* Some(session) the thread goes on to wait() with the guard still alive; with
\* None the block yields -1 and the guard is dropped.
ReaderRemove(h) ==
    /\ pc[h] = "Draining"
    /\ lock = NoHandle
    /\ LET g == PTY_SESSIONS[sid[h]]
       IN IF g # NoHandle
          THEN /\ PTY_SESSIONS' = [PTY_SESSIONS EXCEPT ![sid[h]] = NoHandle]
               /\ removedBy' = [removedBy EXCEPT ![g] = "reader"]
               /\ held' = [held EXCEPT ![h] = g]
               /\ lock' = h
               /\ pc' = [pc EXCEPT ![h] = "Waiting"]
               /\ UNCHANGED exit_code
          ELSE /\ exit_code' = [exit_code EXCEPT ![h] = Sentinel]
               /\ pc' = [pc EXCEPT ![h] = "Emit"]
               /\ UNCHANGED <<PTY_SESSIONS, removedBy, held, lock>>
    /\ UNCHANGED <<sid, childSt, childCode, readCount, waited, notes, ret,
                   exitSeen>>
    /\ UNCHANGED orphan

\* Lines 100-104 and 108: session.child.wait() returns once that child has
\* terminated; Ok(status) gives status.exit_code() as i32, Err gives -1.  The
\* status of a child is seen here and nowhere else, so this is where its
\* value is drawn.  The guard and the removed PtySession are dropped at the
\* end of the block.
ReaderWait(h, waitOk, code) ==
    /\ pc[h] = "Waiting"
    /\ childSt[held[h]] = "exited"
    /\ childCode' = IF waitOk THEN [childCode EXCEPT ![held[h]] = code]
                              ELSE childCode
    /\ exit_code' = [exit_code EXCEPT
                       ![h] = IF waitOk THEN AsI32(code) ELSE Sentinel]
    /\ waited' = [waited EXCEPT ![h] = IF waitOk THEN "ok" ELSE "err"]
    /\ lock' = NoHandle
    /\ pc' = [pc EXCEPT ![h] = "Emit"]
    /\ UNCHANGED <<PTY_SESSIONS, sid, childSt, readCount, held, notes,
                   removedBy, ret, exitSeen>>
    /\ UNCHANGED orphan

\* Lines 110-116: emit pty-exit; the thread ends.
EmitExit(h) ==
    /\ pc[h] = "Emit"
    /\ notes' = [notes EXCEPT ![h] = Append(@, PtyExit(exit_code[h]))]
    /\ pc' = [pc EXCEPT ![h] = "Retired"]
    /\ exitSeen' = [exitSeen EXCEPT ![sid[h]] = TRUE]
    /\ UNCHANGED <<PTY_SESSIONS, lock, sid, childSt, childCode, readCount,
                   held, waited, exit_code, removedBy, ret>>
    /\ UNCHANGED orphan

\* ------------------------------------------------------------- write_pty
\* Variant of write_pty: a missing session is not reported.
write_pty_absent_ok(id, outcome) ==
    /\ lock = NoHandle
    /\ ret' = IF PTY_SESSIONS[id] # NoHandle /\ outcome # "ok"
              THEN Return("write", "io_error")
              ELSE Return("write", "ok")
    /\ UNCHANGED <<PTY_SESSIONS, lock, sid, pc, childSt, childCode, readCount,
                   held, waited, exit_code, notes, removedBy, exitSeen>>
    /\ UNCHANGED orphan

\* Variant of write_pty: a session whose writer failed is dropped.
write_pty_drops(id, outcome) ==
    /\ lock = NoHandle
    /\ LET h == PTY_SESSIONS[id]
           fails == h # NoHandle /\ outcome # "ok"
       IN /\ ret' = IF h = NoHandle THEN Return("write", "not_found")
                    ELSE IF fails THEN Return("write", "io_error")
                                  ELSE Return("write", "ok")
          /\ PTY_SESSIONS' = IF fails
                             THEN [PTY_SESSIONS EXCEPT ![id] = NoHandle]
                             ELSE PTY_SESSIONS
    /\ UNCHANGED <<lock, sid, pc, childSt, childCode, readCount, held,
                   waited, exit_code, notes, removedBy, exitSeen>>
    /\ UNCHANGED orphan

\* Lines 123-135.
write_pty(id, outcome) ==
    /\ lock = NoHandle
    /\ ret' = IF PTY_SESSIONS[id] = NoHandle
              THEN Return("write", "not_found")
              ELSE IF outcome = "ok" THEN Return("write", "ok")
                                     ELSE Return("write", "io_error")
    /\ UNCHANGED <<PTY_SESSIONS, lock, sid, pc, childSt, childCode, readCount,
                   held, waited, exit_code, notes, removedBy, exitSeen>>
    /\ UNCHANGED orphan

\* ------------------------------------------------------------ resize_pty
\* Lines 138-154.
resize_pty(id, resizeOk) ==
    /\ lock = NoHandle
    /\ ret' = IF PTY_SESSIONS[id] = NoHandle
              THEN Return("resize", "not_found")
              ELSE IF resizeOk THEN Return("resize", "ok")
                               ELSE Return("resize", "io_error")
    /\ UNCHANGED <<PTY_SESSIONS, lock, sid, pc, childSt, childCode, readCount,
                   held, waited, exit_code, notes, removedBy, exitSeen>>
    /\ UNCHANGED orphan

\* -------------------------------------------------------------- kill_pty
\* Variant of kill_pty: the session is looked up with get_mut and stays in the
\* map.
kill_pty_get_mut(id, killOk) ==
    /\ lock = NoHandle
    /\ LET h == PTY_SESSIONS[id]
           dies == h # NoHandle /\ killOk /\ childSt[h] = "running"
       IN /\ childSt' = IF dies THEN [childSt EXCEPT ![h] = "exited"]
                                ELSE childSt
          /\ ret' = IF h = NoHandle THEN Return("kill", "not_found")
                    ELSE IF killOk THEN Return("kill", "ok")
                                   ELSE Return("kill", "io_error")
    /\ UNCHANGED <<PTY_SESSIONS, removedBy, lock, sid, pc, childCode,
                   readCount, held, waited, exit_code, notes, exitSeen>>
    /\ UNCHANGED orphan

\* Variant of kill_pty: child.kill() runs first and the entry is removed only
\* when it succeeded.
kill_pty_kill_first(id, killOk) ==
    /\ lock = NoHandle
    /\ LET h == PTY_SESSIONS[id]
           dies == h # NoHandle /\ killOk /\ childSt[h] = "running"
           gone == h # NoHandle /\ killOk
       IN /\ PTY_SESSIONS' = IF gone
                             THEN [PTY_SESSIONS EXCEPT ![id] = NoHandle]
                             ELSE PTY_SESSIONS
          /\ removedBy' = IF gone THEN [removedBy EXCEPT ![h] = "kill"]
                                  ELSE removedBy
          /\ childSt' = IF dies THEN [childSt EXCEPT ![h] = "exited"]
                                ELSE childSt
          /\ ret' = IF h = NoHandle THEN Return("kill", "not_found")
                    ELSE IF killOk THEN Return("kill", "ok")
                                   ELSE Return("kill", "io_error")
    /\ UNCHANGED <<lock, sid, pc, childCode, readCount, held, waited,
                   exit_code, notes, exitSeen>>
    /\ UNCHANGED orphan

\* Lines 157-165: sessions.remove, then child.kill(); the removed PtySession
\* is dropped when the function returns, on the `?` path as well.  A kill that
\* succeeds on a running child terminates it.
kill_pty(id, killOk) ==
    /\ lock = NoHandle
    /\ LET h == PTY_SESSIONS[id]
           dies == h # NoHandle /\ killOk /\ childSt[h] = "running"
       IN /\ PTY_SESSIONS' = [PTY_SESSIONS EXCEPT ![id] = NoHandle]
          /\ removedBy' = IF h # NoHandle
                          THEN [removedBy EXCEPT ![h] = "kill"]
                          ELSE removedBy
          /\ childSt' = IF dies THEN [childSt EXCEPT ![h] = "exited"]
                                ELSE childSt
          /\ ret' = IF h = NoHandle THEN Return("kill", "not_found")
                    ELSE IF killOk THEN Return("kill", "ok")
                                   ELSE Return("kill", "io_error")
    /\ UNCHANGED <<lock, sid, pc, childCode, readCount, held, waited,
                   exit_code, notes, exitSeen>>
    /\ UNCHANGED orphan

\* ---------------------------------------------------------- specification
Next ==
    \/ \E id \in Ids, o \in SpawnOutcomes : spawn_pty_fail(id, o)
    \/ \E id \in Ids : spawn_pty_insert(id)
    \/ \E h \in Handles : spawn_pty_thread(h)
    \/ \E h \in Handles : ChildExit(h)
    \/ OrphanExit
    \/ \E h \in Handles : ReadData(h)
    \/ \E h \in Handles : ReadEof(h)
    \/ \E h \in Handles : ReadErr(h)
    \/ \E h \in Handles : ReaderRemove(h)
    \/ \E h \in Handles, ok \in BOOLEAN, c \in ExitCodes : ReaderWait(h, ok, c)
    \/ \E h \in Handles : EmitExit(h)
    \/ \E id \in Ids, o \in WriteOutcomes : write_pty(id, o)
    \/ \E id \in Ids, ok \in BOOLEAN : resize_pty(id, ok)
    \/ \E id \in Ids, ok \in BOOLEAN : kill_pty(id, ok)

Spec == Init /\ [][Next]_vars

\* Every thread that can take a step is scheduled: a started spawn_pty call
\* reaches thread::spawn, a reader thread sees the end of a stream whose child
\* is gone, gets the mutex when it is free, returns from wait() once the child
\* it waits for has terminated, and emits.  Nothing makes a child terminate,
\* the host call again, or a read fail.
Fairness ==
    \A h \in Handles :
        /\ WF_vars(spawn_pty_thread(h))
        /\ WF_vars(ReadEof(h))
        /\ SF_vars(ReaderRemove(h))
        /\ WF_vars(\E ok \in BOOLEAN, c \in ExitCodes : ReaderWait(h, ok, c))
        /\ WF_vars(EmitExit(h))

FairSpec == Spec /\ Fairness

TypeOK ==
    /\ PTY_SESSIONS \in [Ids -> Handles \cup {NoHandle}]
    /\ lock \in Handles \cup {NoHandle}
    /\ \A h \in Handles : exit_code[h] \in {AsI32(c) : c \in ExitCodes} \cup {Sentinel}
\* ------------------------------------------------------------ properties
IsExit(e) == e[1] = "pty-exit"
IsData(e) == e[1] = "pty-data"
ExitCount(n) == Cardinality({i \in 1..Len(n) : IsExit(n[i])})
Registered(id) == PTY_SESSIONS[id] # NoHandle

\* the session spawned last under id, NoHandle if there was none
Latest(id) ==
    LET hs == {h \in Handles : pc[h] # "Unused" /\ sid[h] = id}
    IN IF hs = {} THEN NoHandle ELSE CHOOSE h \in hs : \A g \in hs : g <= h

\* kill_pty(id) removed the session spawned last under id: id was killed and
\* has not been spawned since
Killed(id) == Latest(id) # NoHandle /\ removedBy[Latest(id)] = "kill"

WriteStep(id) == \E o \in WriteOutcomes : write_pty(id, o)
ResizeStep(id) == \E ok \in BOOLEAN : resize_pty(id, ok)
KillStep(id) == \E ok \in BOOLEAN : kill_pty(id, ok)
SpawnFailStep(id) == \E o \in SpawnOutcomes : spawn_pty_fail(id, o)

\* C1: a spawn_pty on a session_id that is registered leaves the handle
\* stored under it in place and starts no session and no reader thread for
\* it: a key that holds a handle keeps that handle or loses it, never gets
\* another one, and no handle is created for a session_id that is registered.
C1_LiveIdNeverReplaced ==
    [][\A id \in Ids :
          Registered(id) =>
              /\ PTY_SESSIONS'[id] \in {PTY_SESSIONS[id], NoHandle}
              /\ \A h \in Handles :
                    (pc[h] = "Unused" /\ pc'[h] # "Unused") => sid'[h] # id
      ]_vars

\* C2: the events one reader thread has emitted are pty-data events, the
\* i-th of them carrying the i-th chunk read, followed by at most one
\* pty-exit that is the last event; the thread has retired exactly when that
\* pty-exit is there.
C2_DataThenOneExit ==
    \A h \in Handles :
        LET n == notes[h]
        IN /\ \A i \in 1..Len(n) : IsExit(n[i]) => i = Len(n)
           /\ \A i \in 1..Len(n) : IsData(n[i]) => n[i] = PtyData(i)
           /\ \A i \in 1..Len(n) : IsData(n[i]) \/ IsExit(n[i])
           /\ (pc[h] = "Retired") <=> (ExitCount(n) = 1)
           /\ readCount[h] = Len(n) - ExitCount(n)

\* a reader thread that read every chunk and then emitted its pty-exit
C2_Witness ==
    \E h \in Handles :
        /\ pc[h] = "Retired"
        /\ Len(notes[h]) = MaxChunks + 1
        /\ IsExit(notes[h][MaxChunks + 1])

\* C3: once a pty-exit has been emitted for a session_id, no event is emitted
\* for that session_id until a spawn_pty registers it again.
C3_NothingAfterExit ==
    [][\A h \in Handles : notes'[h] # notes[h] => ~exitSeen[sid[h]]]_vars

\* C4: every kill_pty(id) leaves id without an entry, and only a spawn_pty
\* gives it one again; so a kill_pty(id) that follows another one with no
\* spawn_pty(id) in between returns not-found and removes nothing.  A handle
\* leaves the map at most once, and no reader thread emits more than one
\* pty-exit.
C4_KillIdempotent ==
    [][/\ \A id \in Ids :
             /\ KillStep(id) => PTY_SESSIONS'[id] = NoHandle
             /\ (KillStep(id) /\ (Killed(id) \/ ~Registered(id))) =>
                   /\ ret' = Return("kill", "not_found")
                   /\ PTY_SESSIONS' = PTY_SESSIONS
                   /\ removedBy' = removedBy
                   /\ childSt' = childSt
             /\ Killed(id) => ~Registered(id)
             /\ (~Registered(id) /\ PTY_SESSIONS'[id] # NoHandle) =>
                   pc[PTY_SESSIONS'[id]] = "Unused"
       /\ \A h \in Handles :
             /\ removedBy[h] # "none" => removedBy'[h] = removedBy[h]
             /\ ExitCount(notes'[h]) <= 1
      ]_vars

\* every session_id was killed, and the last call was a further kill_pty that
\* found nothing
C4_Witness ==
    /\ \A id \in Ids : Killed(id)
    /\ ret = Return("kill", "not_found")

\* C5: write_pty and resize_pty on a session_id that has no entry return
\* not-found, change no entry and emit nothing; a session_id that was killed
\* and not spawned since has no entry.
C5_AbsentIsNotFound ==
    [][\A id \in Ids :
          /\ (~Registered(id) /\ (WriteStep(id) \/ ResizeStep(id))) =>
                /\ ret'.res = "not_found"
                /\ PTY_SESSIONS' = PTY_SESSIONS
                /\ notes' = notes
          /\ Killed(id) => ~Registered(id)
      ]_vars

\* every session_id was killed and the last call, a write_pty, found nothing
C5_Witness ==
    /\ \A id \in Ids : Killed(id)
    /\ ret = Return("write", "not_found")

\* C6: kill_pty emits nothing, and the reader thread of a session that
\* kill_pty removed, once it has left its read loop, emits its pty-exit.
C6_KilledSessionExits ==
    /\ [][\A id \in Ids : KillStep(id) => notes' = notes]_vars
    /\ \A h \in Handles :
          (removedBy[h] = "kill" /\ pc[h] = "Draining") ~> (pc[h] = "Retired")

\* C7: a spawn_pty that fails returns the error and changes no entry, starts
\* no session and no reader thread, and emits nothing.
C7_FailedSpawnNoTrace ==
    [][\A id \in Ids :
          SpawnFailStep(id) =>
              /\ ret' = Return("spawn", "os_error")
              /\ PTY_SESSIONS' = PTY_SESSIONS
              /\ pc' = pc
              /\ childSt' = childSt
              /\ notes' = notes
      ]_vars

\* a spawn_pty has just failed while a session is registered and being read
C7_Witness ==
    /\ ret = Return("spawn", "os_error")
    /\ \E h \in Handles : pc[h] = "Reading" /\ PTY_SESSIONS[sid[h]] = h

\* C8: write_pty and resize_pty change no entry of the map, whatever they
\* return; when they return an I/O error the session_id still has its entry.
C8_WriteResizeKeepEntries ==
    [][\A id \in Ids :
          (WriteStep(id) \/ ResizeStep(id)) =>
              /\ PTY_SESSIONS' = PTY_SESSIONS
              /\ removedBy' = removedBy
              /\ ret'.res = "io_error" => PTY_SESSIONS'[id] # NoHandle
      ]_vars

\* the only session there is has had a write_pty fail and is still registered
C8_Witness ==
    /\ ret = Return("write", "io_error")
    /\ Spawned = 1
    /\ \E id \in Ids : Registered(id)

\* C9: a kill_pty whose child.kill() fails returns that error and has removed
\* the entry all the same; until the session_id is spawned again write_pty,
\* resize_pty and kill_pty return not-found for it.
C9_FailedKillRemoves ==
    [][\A id \in Ids :
          /\ (kill_pty(id, FALSE) /\ Registered(id)) =>
                /\ ret' = Return("kill", "io_error")
                /\ PTY_SESSIONS'[id] = NoHandle
                /\ removedBy'[PTY_SESSIONS[id]] = "kill"
          /\ (Killed(id) /\ (WriteStep(id) \/ ResizeStep(id) \/ KillStep(id))) =>
                ret'.res = "not_found"
      ]_vars

\* a kill_pty has just failed: the child still runs, the entry is gone
C9_Witness ==
    /\ ret = Return("kill", "io_error")
    /\ \E h \in Handles :
          /\ removedBy[h] = "kill"
          /\ childSt[h] = "running"
          /\ Killed(sid[h])

\* C10: the code a reader thread puts in its pty-exit is the exit code of the
\* child of its own session when wait() gave one, and -1 otherwise.
C10_ExitCodeOfOwnChild ==
    \A h \in Handles :
        pc[h] \in {"Emit", "Retired"} =>
            IF waited[h] = "ok"
            THEN held[h] = h /\ exit_code[h] = AsI32(childCode[h])
            ELSE exit_code[h] = Sentinel

\* C11: no thread holds the PTY_SESSIONS mutex while it waits for a child
\* process to terminate: whenever the mutex is held, the holder can go on and
\* release it.
C11_NoWaitUnderLock ==
    \A h \in Handles :
        lock = h => (pc[h] = "Waiting" /\ childSt[held[h]] = "exited")

\* C12: a PtySession that was inserted leaves the map by the removal step of
\* a reader thread or by kill_pty and by nothing else, and once it has left
\* it is not in the map to leave it again.
C12_TwoWaysOut ==
    \A h \in Handles :
        /\ removedBy[h] \in {"none", "reader", "kill"}
        /\ removedBy[h] # "none" => \A id \in Ids : PTY_SESSIONS[id] # h
        /\ (removedBy[h] = "none" /\ pc[h] # "Unused") => PTY_SESSIONS[sid[h]] = h

\* C13: the mutex has at most one holder; a reader thread is inside
\* child.wait() exactly while it holds the mutex, and the PtySession it waits
\* on is out of the map and in no other thread's hands.  The commands take
\* and release the mutex within one step, which they can only take while no
\* reader thread holds it.
C13_MutualExclusion ==
    /\ \A h \in Handles : (pc[h] = "Waiting") <=> (lock = h)
    /\ \A h \in Handles :
          pc[h] = "Waiting" =>
              /\ held[h] # NoHandle
              /\ \A id \in Ids : PTY_SESSIONS[id] # held[h]
              /\ \A g \in Handles :
                    (g # h /\ pc[g] \in {"Waiting", "Emit"}) => held[g] # held[h]

\* a reader thread holds the mutex inside wait() while another session is in
\* the map and its reader thread wants the mutex
C13_Witness ==
    \E h, g \in Handles :
        /\ lock = h
        /\ pc[g] = "Draining"
        /\ PTY_SESSIONS[sid[g]] = g

\* C14: no child launched by a spawn_pty call that failed afterwards is left
\* running, and with it no terminal that it keeps open.
C14_FailedSpawnReleases == ~orphan

\* C15: a read error and a zero-length read both end the read loop and do
\* nothing else; a reader thread that has left the loop emits no pty-data
\* and makes one removal attempt; and, unless it is itself waiting for a
\* child that has not terminated, it goes on to emit its pty-exit and retire.
C15_ReadErrorLikeEof ==
    /\ [][\A h \in Handles :
             /\ (ReadErr(h) \/ ReadEof(h)) =>
                   /\ pc'[h] = "Draining"
                   /\ notes' = notes
                   /\ PTY_SESSIONS' = PTY_SESSIONS
             /\ pc[h] \in {"Draining", "Waiting", "Emit", "Retired"} =>
                   /\ readCount'[h] = readCount[h]
                   /\ pc'[h] # "Reading"
                   /\ pc[h] # "Draining" => pc'[h] # "Draining"
         ]_vars
    /\ \A h \in Handles :
          (pc[h] = "Draining") ~>
              \/ pc[h] = "Retired"
              \/ pc[h] = "Waiting" /\ childSt[held[h]] = "running"

\* C16: a spawn_pty call has inserted its PtySession before it starts its
\* reader thread, so no reader thread runs for a session that was never
\* inserted; and a call that is about to start the thread and return Ok(())
\* finds its session in the map, unless kill_pty has removed it.
C16_InsertedBeforeThread ==
    \A h \in Handles :
        /\ pc[h] \notin {"Unused", "Inserted"} =>
              (PTY_SESSIONS[sid[h]] = h \/ removedBy[h] # "none")
        /\ pc[h] \in {"Unused", "Inserted"} =>
              (notes[h] = <<>> /\ held[h] = NoHandle)
        /\ pc[h] = "Inserted" =>
              (PTY_SESSIONS[sid[h]] = h \/ removedBy[h] = "kill")

\* C17: the PtySession a reader thread takes out of the map, waits on and
\* drops is the one inserted by the spawn_pty call that started the thread.
C17_ReaderRemovesOwnSession ==
    \A h \in Handles :
        /\ held[h] \in {NoHandle, h}
        /\ \A g \in Handles :
              (removedBy[g] = "reader" /\ g # h /\ pc[h] # "Unused") => held[h] # g

\* C18: the reader thread of a session that kill_pty removed, and whose
\* session_id was not spawned again, finds no entry: it holds no PtySession,
\* waits on no child, and the code of its pty-exit is -1.
C18_KilledGivesSentinel ==
    \A h \in Handles :
        (removedBy[h] = "kill" /\ Latest(sid[h]) = h) =>
            /\ held[h] = NoHandle
            /\ waited[h] = "none"
            /\ pc[h] # "Waiting"
            /\ pc[h] = "Emit" => exit_code[h] = Sentinel
            /\ pc[h] = "Retired" => notes[h][Len(notes[h])] = PtyExit(Sentinel)

\* a killed child has terminated and its reader thread has emitted pty-exit
C18_Witness ==
    \E h \in Handles :
        /\ removedBy[h] = "kill"
        /\ Latest(sid[h]) = h
        /\ childSt[h] = "exited"
        /\ pc[h] = "Retired"
        /\ notes[h][Len(notes[h])] = PtyExit(Sentinel)

\* C19: once the spawn_pty call that inserted an entry has started its reader
\* thread, a session_id present in PTY_SESSIONS has a reader thread of that
\* session_id that has not yet done its sessions.remove; so when every reader
\* thread of a session_id has emitted pty-exit, the map holds no entry for it.
C19_NoOrphanEntries ==
    \A id \in Ids :
        LET g == PTY_SESSIONS[id]
        IN (g # NoHandle /\ pc[g] # "Inserted") =>
               \E h \in Handles :
                   sid[h] = id /\ pc[h] \in {"Reading", "Draining"}

\* a session_id is registered again while an earlier reader thread of the same
\* session_id has already emitted its pty-exit
C19_Witness ==
    \E g, h \in Handles :
        /\ g # h
        /\ sid[h] = sid[g]
        /\ pc[h] = "Retired"
        /\ PTY_SESSIONS[sid[g]] = g
        /\ pc[g] \in {"Reading", "Draining"}
====
